---------------------------- MODULE Spec2Model ----------------------------
(***************************************************************************)
(* Model of the Beer Game engine of supply-chain-optimizer                 *)
(* (src/backend/core/game_engine.py, src/backend/models/supply_chain.py,   *)
(* src/backend/models/orders.py, src/backend/core/utils.py).               *)
(*                                                                         *)
(* Conventions                                                             *)
(*  - A Python string that is built by an f-string is a sequence of        *)
(*    tokens, one token per "_"-separated part, so that string formatting  *)
(*    is concatenation and two strings are equal iff their token sequences *)
(*    are: f"{game_id}_chain_{i}" is <<game_id, "chain", str(i)>>.          *)
(*  - An Optional value is a sequence of length 0 (None) or 1 (the value). *)
(*  - The value an operation returns is recorded as its string: an id is   *)
(*    its token sequence, True and False are <<"True">> and <<"False">>.    *)
(*    The dictionary get_game_state returns is recorded in last.state.     *)
(*  - Money is counted in half units (the rates are 0.5 and 2.0 per unit): *)
(*    total_cost in the model is twice the Python float, which is exact    *)
(*    because every cost is a multiple of 0.5.                             *)
(*  - uuid-based ids (generate_id) are fresh names; order ids are numbered *)
(*    in creation order.                                                   *)
(***************************************************************************)
EXTENDS Integers, Sequences, FiniteSets, TLC

VARIABLES games, supply_chains, orders, order_queue, last

vars == <<games, supply_chains, orders, order_queue, last>>

-----------------------------------------------------------------------------
(* Bounds of the model *)

MaxWeek == 4
MaxOrders == 1
MaxSteps == 2
MaxHist == 53
MaxChainSteps == 1
MaxGameWeek == 1
MaxArrivals == 3
MaxPending == 2

(* Program constants *)

INITIAL_INVENTORY == 100
HOLDING_COST_X2 == 1
STOCKOUT_COST_X2 == 4
ORDER_DELAY_WEEKS == 4
HISTORY_VIEW == 52

BEER_GAME_ROLES == <<"Shop", "Retailer", "Wholesaler", "Factory">>

RoleSet == {BEER_GAME_ROLES[i] : i \in 1..Len(BEER_GAME_ROLES)}

-----------------------------------------------------------------------------
(* Inputs *)

GameIdPool == <<"game1">>
UnknownGame == "game9"
ChainCounts == {0, 1}
WeekLimits == {2}
Selectors == {<<"chain", "0">>, <<"chain", "1">>}
RoleArgs == {"Shop", "Wholesaler", "Customer"}
PlayerNames == {"ann"}
Quantities == {30, 150}
OrderQuantities == {50}
StepQuantities == {-150, 150}
StepWeeks == {4}
StepRoles == {"Shop", "Customer"}
HistoryDemands == {30, 150}
WeekArgs == {1, 5}
ChainRoles == {"Shop"}
ChainWeekArgs == {1}
ChainDemands == {30}
ChainIndexes == {0, 1}
CostRoles == {"Shop", "Factory"}
GamesPool == <<"game1", "game2">>
ArrivalRoles == {"Shop", "Retailer"}
ArrivalQuantities == {20, 50}
ArrivalWeeks == {3, 4}
ArrivalDemands == {130}
OrderingWeeks == {4, 8}

-----------------------------------------------------------------------------
(* Optional values and small helpers *)

None == <<>>

(* an empty dict *)
EmptyMap == [x \in {} |-> x]

Some(x) == <<x>>

(* str(b) of a bool; a returned value is recorded as its string *)
BoolStr(b) == IF b THEN <<"True">> ELSE <<"False">>

Max(a, b) == IF a >= b THEN a ELSE b

Min(a, b) == IF a <= b THEN a ELSE b

Range(s) == {s[i] : i \in 1..Len(s)}

RECURSIVE SumSeq(_)
SumSeq(s) == IF s = <<>> THEN 0 ELSE Head(s) + SumSeq(Tail(s))

(* Mutant of LastN: s[:n], the oldest n entries. *)
FirstN(s, n) == IF Len(s) <= n THEN s ELSE SubSeq(s, 1, n)

(* s[-n:] *)
LastN(s, n) == IF Len(s) <= n THEN s ELSE SubSeq(s, Len(s) - n + 1, Len(s))

(* The first name of a pool that is not in use: a fresh uuid. *)
Fresh(pool, used) ==
    LET free == {i \in 1..Len(pool) : pool[i] \notin used}
    IN  IF free = {} THEN None
        ELSE Some(pool[CHOOSE i \in free : \A j \in free : i <= j])

(* The engine's dictionaries as one value. *)
Engine == [games |-> games, supply_chains |-> supply_chains,
           orders |-> orders, order_queue |-> order_queue]

(* f"{game_id}_chain_{chain_index}" where index is the str() of the argument *)
ChainIdOf(game_id, index) == <<game_id, "chain">> \o index

(* f"{game_id}_{supply_chain_id}" *)
FullChainId(game_id, selector) == <<game_id>> \o selector

(* str(i) of an int *)
IntStr(i) == <<ToString(i)>>

-----------------------------------------------------------------------------
(* models/supply_chain.py *)

SupplyChainNode(role, player_id, player_name, inventory) ==
    [role |-> role, player_id |-> player_id, player_name |-> player_name,
     inventory |-> inventory, backorder |-> 0, current_order |-> 0,
     incoming_order |-> 0, total_cost |-> 0,
     orders_history |-> <<>>, inventory_history |-> <<>>]

SupplyChain(chain_id, game_id) ==
    [chain_id |-> chain_id, game_id |-> game_id, nodes |-> EmptyMap,
     current_week |-> 0, total_cost |-> 0]

(* get_node(role) is not None *)
HasNode(sc, role) == role \in DOMAIN sc.nodes

set_node(sc, role, node) ==
    IF role \in RoleSet
    THEN [sc EXCEPT !.nodes =
            [r \in (DOMAIN sc.nodes) \cup {role} |->
                IF r = role THEN node ELSE sc.nodes[r]]]
    ELSE sc

(* the roles of get_nodes(), in its order *)
get_nodes(sc) == SelectSeq(BEER_GAME_ROLES, LAMBDA r : r \in DOMAIN sc.nodes)

(* Mutant of calculate_total_cost: the stored total_cost field is reported. *)
calculate_total_cost_stored(sc) == sc.total_cost

calculate_total_cost(sc) ==
    SumSeq([i \in 1..Len(get_nodes(sc)) |-> sc.nodes[get_nodes(sc)[i]].total_cost])

NodeToDict(n) ==
    [n EXCEPT !.orders_history = LastN(n.orders_history, HISTORY_VIEW),
              !.inventory_history = LastN(n.inventory_history, HISTORY_VIEW)]

ChainToDict(sc) ==
    [chain_id |-> sc.chain_id, game_id |-> sc.game_id,
     nodes |-> [r \in DOMAIN sc.nodes |-> NodeToDict(sc.nodes[r])],
     current_week |-> sc.current_week,
     total_cost |-> calculate_total_cost(sc)]

-----------------------------------------------------------------------------
(* models/orders.py *)

Order(order_id, from_role, to_role, supply_chain_id, game_id, quantity, created_week, delivery_week) ==
    [order_id |-> order_id, from_role |-> from_role, to_role |-> to_role,
     supply_chain_id |-> supply_chain_id, game_id |-> game_id,
     quantity |-> quantity, status |-> "pending",
     created_week |-> created_week, delivery_week |-> delivery_week,
     actual_delivery_week |-> None]

-----------------------------------------------------------------------------
(* core/utils.py *)

calculate_inventory_cost(quantity, cost_per_unit) ==
    Max(0, quantity) * cost_per_unit

calculate_backorder_cost(quantity, cost_per_unit) ==
    Max(0, 0 - quantity) * cost_per_unit

-----------------------------------------------------------------------------
(* core/game_engine.py: each operation maps the engine E to                *)
(* [E |-> the engine after the call, ret |-> the value returned]           *)

RECURSIVE NewChains(_, _, _, _)
NewChains(E, game_id, i, num_chains) ==
    IF i >= num_chains THEN E
    ELSE LET chain_id == ChainIdOf(game_id, IntStr(i))
             put(f, v) == [c \in (DOMAIN f) \cup {chain_id} |->
                              IF c = chain_id THEN v ELSE f[c]]
         IN  NewChains(
               [games |-> [E.games EXCEPT ![game_id].supply_chains =
                              Append(@, chain_id)],
                supply_chains |-> put(E.supply_chains,
                                      SupplyChain(chain_id, game_id)),
                orders |-> put(E.orders, <<>>),
                order_queue |-> put(E.order_queue, <<>>)],
               game_id, i + 1, num_chains)

create_game(E, game_id, num_chains, weeks, demand_pattern) ==
    LET game == [game_id |-> game_id, num_chains |-> num_chains,
                 weeks |-> weeks, demand_pattern |-> demand_pattern,
                 current_week |-> 0, status |-> "waiting",
                 supply_chains |-> <<>>]
        E0 == [E EXCEPT !.games =
                 [g \in (DOMAIN E.games) \cup {game_id} |->
                     IF g = game_id THEN game ELSE E.games[g]]]
    IN  [E |-> NewChains(E0, game_id, 0, num_chains), ret |-> Some(<<game_id>>)]

(* Mutant of join_game: the role is not validated. *)
join_game_any_role(E, player_id, game_id, supply_chain_id, role, player_name) ==
    LET chain_id == FullChainId(game_id, supply_chain_id)
    IN  IF game_id \notin DOMAIN E.games THEN [E |-> E, ret |-> None]
        ELSE IF chain_id \notin DOMAIN E.supply_chains
             THEN [E |-> E, ret |-> None]
        ELSE LET node == SupplyChainNode(role, player_id, player_name,
                                         INITIAL_INVENTORY)
             IN  [E |-> [E EXCEPT !.supply_chains[chain_id] =
                                     set_node(@, role, node)],
                  ret |-> Some(player_id)]

join_game(E, player_id, game_id, supply_chain_id, role, player_name) ==
    LET chain_id == FullChainId(game_id, supply_chain_id)
    IN  IF game_id \notin DOMAIN E.games THEN [E |-> E, ret |-> None]
        ELSE IF role \notin RoleSet THEN [E |-> E, ret |-> None]
        ELSE IF chain_id \notin DOMAIN E.supply_chains
             THEN [E |-> E, ret |-> None]
        ELSE LET node == SupplyChainNode(role, player_id, player_name,
                                         INITIAL_INVENTORY)
             IN  [E |-> [E EXCEPT !.supply_chains[chain_id] =
                                     set_node(@, role, node)],
                  ret |-> Some(player_id)]

place_customer_order(E, game_id, chain_id, week, quantity) ==
    LET full_chain_id == FullChainId(game_id, chain_id)
    IN  IF full_chain_id \notin DOMAIN E.supply_chains
        THEN [E |-> E, ret |-> Some(BoolStr(FALSE))]
        ELSE IF HasNode(E.supply_chains[full_chain_id], "Shop")
        THEN [E |-> [E EXCEPT !.supply_chains[full_chain_id].nodes["Shop"]
                                  .incoming_order = quantity],
              ret |-> Some(BoolStr(TRUE))]
        ELSE [E |-> E, ret |-> Some(BoolStr(FALSE))]

(* Mutant of process_order: the quantity is taken out of the sender's stock. *)
process_order_debits_sender(E, order_id, game_id, chain_id, from_role, to_role, quantity) ==
    LET full_chain_id == FullChainId(game_id, chain_id)
    IN  IF full_chain_id \notin DOMAIN E.supply_chains
        THEN [E |-> E, ret |-> None]
        ELSE LET supply_chain == E.supply_chains[full_chain_id]
             IN  IF ~HasNode(supply_chain, from_role)
                    \/ ~HasNode(supply_chain, to_role)
                 THEN [E |-> E, ret |-> None]
                 ELSE LET current_week == supply_chain.current_week
                          delivery_week == current_week + ORDER_DELAY_WEEKS
                          order == Order(order_id, from_role, to_role,
                                         full_chain_id, game_id, quantity,
                                         current_week, delivery_week)
                          from_node == supply_chain.nodes[from_role]
                      IN  [E |-> [E EXCEPT
                                   !.orders[full_chain_id] = Append(@, order),
                                   !.supply_chains[full_chain_id]
                                      .nodes[from_role] =
                                        [from_node EXCEPT
                                           !.current_order = quantity,
                                           !.inventory = @ - quantity]],
                           ret |-> Some(order_id)]

(* Mutant of process_order: the recipient node is not looked up. *)
process_order_any_recipient(E, order_id, game_id, chain_id, from_role, to_role, quantity) ==
    LET full_chain_id == FullChainId(game_id, chain_id)
    IN  IF full_chain_id \notin DOMAIN E.supply_chains
        THEN [E |-> E, ret |-> None]
        ELSE LET supply_chain == E.supply_chains[full_chain_id]
             IN  IF ~HasNode(supply_chain, from_role)
                 THEN [E |-> E, ret |-> None]
                 ELSE LET current_week == supply_chain.current_week
                          delivery_week == current_week + ORDER_DELAY_WEEKS
                          order == Order(order_id, from_role, to_role,
                                         full_chain_id, game_id, quantity,
                                         current_week, delivery_week)
                      IN  [E |-> [E EXCEPT
                                   !.orders[full_chain_id] = Append(@, order),
                                   !.supply_chains[full_chain_id]
                                      .nodes[from_role].current_order = quantity],
                           ret |-> Some(order_id)]

process_order(E, order_id, game_id, chain_id, from_role, to_role, quantity) ==
    LET full_chain_id == FullChainId(game_id, chain_id)
    IN  IF full_chain_id \notin DOMAIN E.supply_chains
        THEN [E |-> E, ret |-> None]
        ELSE LET supply_chain == E.supply_chains[full_chain_id]
             IN  IF ~HasNode(supply_chain, from_role)
                    \/ ~HasNode(supply_chain, to_role)
                 THEN [E |-> E, ret |-> None]
                 ELSE LET current_week == supply_chain.current_week
                          delivery_week == current_week + ORDER_DELAY_WEEKS
                          order == Order(order_id, from_role, to_role,
                                         full_chain_id, game_id, quantity,
                                         current_week, delivery_week)
                      IN  [E |-> [E EXCEPT
                                   !.orders[full_chain_id] = Append(@, order),
                                   !.supply_chains[full_chain_id]
                                      .nodes[from_role].current_order = quantity],
                           ret |-> Some(order_id)]

(* _get_incoming_orders: the ledger after the scan, and the orders found *)
(* Mutant of IsIncoming: an order that is overdue is incoming too. *)
IsIncomingOrOverdue(order, role, current_week) ==
    order.to_role = role /\ order.delivery_week <= current_week

IsIncoming(order, role, current_week) ==
    order.to_role = role /\ order.delivery_week = current_week

(* Mutant of get_incoming_orders: the scan stops at the first order found. *)
get_incoming_orders_first_only(ledger, role, current_week) ==
    LET found == {i \in 1..Len(ledger) :
                     IsIncoming(ledger[i], role, current_week)}
        first == {i \in found : \A j \in found : i <= j}
    IN  [ledger |-> [i \in 1..Len(ledger) |->
                       IF i \in first
                       THEN [ledger[i] EXCEPT !.status = "delivered",
                                              !.actual_delivery_week =
                                                  Some(current_week)]
                       ELSE ledger[i]],
         incoming |-> [k \in 1..Cardinality(first) |->
                         ledger[CHOOSE i \in first : TRUE]]]

get_incoming_orders(ledger, role, current_week) ==
    [ledger |-> [i \in 1..Len(ledger) |->
                    IF IsIncoming(ledger[i], role, current_week)
                    THEN [ledger[i] EXCEPT !.status = "delivered",
                                           !.actual_delivery_week =
                                               Some(current_week)]
                    ELSE ledger[i]],
     incoming |-> SelectSeq(ledger,
                     LAMBDA o : IsIncoming(o, role, current_week))]

(* Mutant of process_node: the whole demand is shipped, in stock or not. *)
process_node_ships_all(node, incoming, current_week) ==
    LET arrived == SumSeq([i \in 1..Len(incoming) |-> incoming[i].quantity])
        inventory2 == node.inventory + arrived - node.incoming_order
    IN  [node EXCEPT
           !.inventory = inventory2,
           !.backorder = 0,
           !.total_cost = @ + calculate_inventory_cost(inventory2,
                                                       HOLDING_COST_X2),
           !.orders_history = Append(@, node.current_order),
           !.inventory_history = Append(@, inventory2)]

(* _process_node_week on a node, given the orders that arrive *)
process_node(node, incoming, current_week) ==
    LET arrived == SumSeq([i \in 1..Len(incoming) |-> incoming[i].quantity])
        inventory1 == node.inventory + arrived
        demand == node.incoming_order
        fulfilled == Min(inventory1, demand)
        inventory2 == inventory1 - fulfilled
        backorder == IF fulfilled < demand
                     THEN node.backorder + (demand - fulfilled)
                     ELSE 0
        holding_cost == calculate_inventory_cost(inventory2, HOLDING_COST_X2)
        stockout_cost == calculate_backorder_cost(backorder, STOCKOUT_COST_X2)
    IN  [node EXCEPT
           !.inventory = inventory2,
           !.backorder = backorder,
           !.total_cost = @ + holding_cost + stockout_cost,
           !.orders_history = Append(@, node.current_order),
           !.inventory_history = Append(@, inventory2)]

(* Mutant of process_node_week: the scan marks the due orders of every      *)
(* ledger, not only those of the chain of the node.                         *)
process_node_week_any_ledger(E, chain_id, role, current_week) ==
    LET ledger == IF chain_id \in DOMAIN E.orders THEN E.orders[chain_id]
                  ELSE <<>>
        got == get_incoming_orders(ledger, role, current_week)
        node == E.supply_chains[chain_id].nodes[role]
        E1 == [E EXCEPT !.orders =
                 [c \in DOMAIN E.orders |->
                    get_incoming_orders(E.orders[c], role, current_week).ledger]]
    IN  [E1 EXCEPT !.supply_chains[chain_id].nodes[role] =
                      process_node(node, got.incoming, current_week)]

(* Mutant of process_node_week: the node takes every pending order that is  *)
(* due in the week, whatever role it is addressed to.                       *)
process_node_week_takes_all(E, chain_id, role, current_week) ==
    LET ledger == IF chain_id \in DOMAIN E.orders THEN E.orders[chain_id]
                  ELSE <<>>
        taken(o) == o.delivery_week = current_week /\ o.status = "pending"
        node == E.supply_chains[chain_id].nodes[role]
        E1 == IF chain_id \in DOMAIN E.orders
              THEN [E EXCEPT !.orders[chain_id] =
                      [i \in 1..Len(ledger) |->
                         IF taken(ledger[i])
                         THEN [ledger[i] EXCEPT !.status = "delivered",
                                                !.actual_delivery_week =
                                                    Some(current_week)]
                         ELSE ledger[i]]]
              ELSE E
    IN  [E1 EXCEPT !.supply_chains[chain_id].nodes[role] =
                      process_node(node, SelectSeq(ledger, taken),
                                   current_week)]

process_node_week(E, chain_id, role, current_week) ==
    LET ledger == IF chain_id \in DOMAIN E.orders THEN E.orders[chain_id]
                  ELSE <<>>
        got == get_incoming_orders(ledger, role, current_week)
        node == E.supply_chains[chain_id].nodes[role]
        E1 == IF chain_id \in DOMAIN E.orders
              THEN [E EXCEPT !.orders[chain_id] = got.ledger]
              ELSE E
    IN  [E1 EXCEPT !.supply_chains[chain_id].nodes[role] =
                      process_node(node, got.incoming, current_week)]

RECURSIVE ProcessNodes(_, _, _, _)
ProcessNodes(E, chain_id, roles, current_week) ==
    IF roles = <<>> THEN E
    ELSE ProcessNodes(process_node_week(E, chain_id, Head(roles), current_week),
                      chain_id, Tail(roles), current_week)

(* chain_index is the str() of the argument the caller passed *)
process_supply_chain_week(E, game_id, chain_index, current_week) ==
    LET chain_id == ChainIdOf(game_id, chain_index)
    IN  IF chain_id \notin DOMAIN E.supply_chains THEN E
        ELSE LET E1 == [E EXCEPT !.supply_chains[chain_id].current_week =
                                     current_week]
             IN  ProcessNodes(E1, chain_id, get_nodes(E1.supply_chains[chain_id]),
                              current_week)

RECURSIVE ProcessChains(_, _, _, _)
ProcessChains(E, game_id, chain_ids, current_week) ==
    IF chain_ids = <<>> THEN E
    ELSE ProcessChains(
           process_supply_chain_week(E, game_id, Head(chain_ids), current_week),
           game_id, Tail(chain_ids), current_week)

(* Mutant of advance_week: the week counter of every game is raised. *)
advance_week_all_games(E, game_id) ==
    IF game_id \notin DOMAIN E.games THEN [E |-> E, ret |-> Some(BoolStr(FALSE))]
    ELSE LET E1 == [E EXCEPT !.games =
                      [g \in DOMAIN E.games |->
                         [E.games[g] EXCEPT !.current_week = @ + 1]]]
             game == E1.games[game_id]
         IN  [E |-> ProcessChains(E1, game_id, game.supply_chains,
                                  game.current_week),
              ret |-> Some(BoolStr(TRUE))]

(* Mutant of advance_week: the week counter is raised by two. *)
advance_week_by_two(E, game_id) ==
    IF game_id \notin DOMAIN E.games THEN [E |-> E, ret |-> Some(BoolStr(FALSE))]
    ELSE LET E1 == [E EXCEPT !.games[game_id].current_week = @ + 2]
             game == E1.games[game_id]
         IN  [E |-> ProcessChains(E1, game_id, game.supply_chains,
                                  game.current_week),
              ret |-> Some(BoolStr(TRUE))]

advance_week(E, game_id) ==
    IF game_id \notin DOMAIN E.games THEN [E |-> E, ret |-> Some(BoolStr(FALSE))]
    ELSE LET E1 == [E EXCEPT !.games[game_id].current_week = @ + 1]
             game == E1.games[game_id]
         IN  [E |-> ProcessChains(E1, game_id, game.supply_chains,
                                  game.current_week),
              ret |-> Some(BoolStr(TRUE))]

get_game_state(E, game_id) ==
    IF game_id \notin DOMAIN E.games THEN None
    ELSE LET game == E.games[game_id]
         IN  Some([game_id |-> game.game_id, status |-> game.status,
                   current_week |-> game.current_week, weeks |-> game.weeks,
                   demand_pattern |-> game.demand_pattern,
                   supply_chains |->
                     [i \in 1..Len(game.supply_chains) |->
                        ChainToDict(E.supply_chains[game.supply_chains[i]])]])

-----------------------------------------------------------------------------
(* State machine *)

Init ==
    /\ games = EmptyMap
    /\ supply_chains = EmptyMap
    /\ orders = EmptyMap
    /\ order_queue = EmptyMap
    /\ last = [op |-> "init", ret |-> None, state |-> None]

Return(r, op) ==
    /\ games' = r.E.games
    /\ supply_chains' = r.E.supply_chains
    /\ orders' = r.E.orders
    /\ order_queue' = r.E.order_queue
    /\ last' = [op |-> op, ret |-> r.ret,
                state |-> IF op = "get_game_state"
                          THEN get_game_state(r.E, r.game_id) ELSE None]

(* the occupied role slots of an engine, as <<chain id, role>> *)
NodesOf(E) ==
    UNION {{<<c, r>> : r \in DOMAIN E.supply_chains[c].nodes} :
           c \in DOMAIN E.supply_chains}

(* the ledger entries of an engine, as <<chain id, position>> *)
OrdersOf(E) ==
    UNION {{<<c, i>> : i \in 1..Len(E.orders[c])} : c \in DOMAIN E.orders}

NodeAt(E, n) == E.supply_chains[n[1]].nodes[n[2]]

OrderAt(E, o) == E.orders[o[1]][o[2]]

(* generate_id("order"): a fresh id; the model numbers the ids in the order  *)
(* of their creation.                                                        *)
FreshOrderId(E) == <<"order", ToString(Cardinality(OrdersOf(E)) + 1)>>

(* generate_player_id: a fresh uuid.  The engine relies only on the id being *)
(* different from every id bound so far; the model names it after the slot   *)
(* it is generated for and a mark that differs from the mark of the node     *)
(* that occupies the slot.                                                   *)
FreshPlayerId(E, game_id, supply_chain_id, role) ==
    LET chain_id == FullChainId(game_id, supply_chain_id)
        taken == /\ chain_id \in DOMAIN E.supply_chains
                 /\ HasNode(E.supply_chains[chain_id], role)
        bound == E.supply_chains[chain_id].nodes[role].player_id
    IN  <<"player">> \o chain_id \o
        <<role, IF taken /\ bound[Len(bound)] = "1" THEN "2" ELSE "1">>

CreateGame(pool, num_chains, weeks, demand_pattern) ==
    /\ Fresh(pool, DOMAIN games) # None
    /\ Return(create_game(Engine, Fresh(pool, DOMAIN games)[1], num_chains,
                          weeks, demand_pattern), "create_game")

JoinGame(game_id, supply_chain_id, role, player_name) ==
    LET r == join_game(Engine, FreshPlayerId(Engine, game_id, supply_chain_id, role),
                       game_id,
                       supply_chain_id, role, player_name)
    IN  Return(r, "join_game")

PlaceCustomerOrder(game_id, chain_id, week, quantity) ==
    Return(place_customer_order(Engine, game_id, chain_id, week, quantity),
           "place_customer_order")

ProcessOrder(game_id, chain_id, from_role, to_role, quantity) ==
    LET r == process_order(Engine, FreshOrderId(Engine), game_id,
                           chain_id, from_role, to_role, quantity)
    IN  /\ Cardinality(OrdersOf(r.E)) <= MaxOrders
        /\ Return(r, "process_order")

AdvanceWeek(game_id) ==
    /\ game_id \in DOMAIN games => games[game_id].current_week < MaxWeek
    /\ Return(advance_week(Engine, game_id), "advance_week")

(* Mutant of GetGameState: the query stores the sum it reports in the       *)
(* total_cost field of each chain.                                          *)
GetGameStateCaching(game_id) ==
    Return([E |-> [Engine EXCEPT !.supply_chains =
                     [c \in DOMAIN supply_chains |->
                        [supply_chains[c] EXCEPT !.total_cost =
                           calculate_total_cost(supply_chains[c])]]],
            game_id |-> game_id,
            ret |-> IF get_game_state(Engine, game_id) = None THEN None
                    ELSE Some(<<"dict">>)],
           "get_game_state")

GetGameState(game_id) ==
    Return([E |-> Engine, game_id |-> game_id,
            ret |-> IF get_game_state(Engine, game_id) = None THEN None
                    ELSE Some(<<"dict">>)],
           "get_game_state")

(* A direct call of _process_supply_chain_week with the chain index its     *)
(* signature declares (an int), as a unit test of the weekly step makes it. *)
ProcessSupplyChainWeek(game_id, chain_index, current_week, max_len) ==
    LET E1 == process_supply_chain_week(Engine, game_id, IntStr(chain_index),
                                        current_week)
    IN  /\ \A n \in NodesOf(E1) : Len(NodeAt(E1, n).orders_history) <= max_len
        /\ Return([E |-> E1, ret |-> None], "_process_supply_chain_week")

(* The same call for the week after the chain's current one. *)
ProcessNextWeek(game_id, chain_index, max_len) ==
    LET chain_id == ChainIdOf(game_id, IntStr(chain_index))
    IN  /\ chain_id \in DOMAIN supply_chains
        /\ ProcessSupplyChainWeek(game_id, chain_index,
                                  supply_chains[chain_id].current_week + 1,
                                  max_len)

-----------------------------------------------------------------------------
(* Spec: the engine driven through its public operations *)

GameArgs == Range(GameIdPool) \cup {UnknownGame}

Next ==
    \/ \E n \in ChainCounts, w \in WeekLimits :
          CreateGame(GameIdPool, n, w, "sine_wave")
    \/ \E g \in GameArgs, s \in Selectors, r \in RoleArgs, p \in PlayerNames :
          JoinGame(g, s, r, p)
    \/ \E g \in GameArgs, s \in Selectors, w \in WeekArgs, q \in Quantities :
          PlaceCustomerOrder(g, s, w, q)
    \/ \E g \in GameArgs, s \in Selectors, f \in RoleArgs, t \in RoleArgs,
          q \in OrderQuantities :
          ProcessOrder(g, s, f, t, q)
    \/ \E g \in GameArgs : AdvanceWeek(g)
    \/ \E g \in GameArgs : GetGameState(g)

Spec == Init /\ [][Next]_vars

-----------------------------------------------------------------------------
(* SpecWeekly: the public operations on a game of one chain, and direct     *)
(* calls of the weekly step for the weeks of StepWeeks.  Every behaviour of *)
(* the public operations on such a game is a behaviour of SpecWeekly.       *)

NextWeekly ==
    \/ \E w \in WeekLimits : CreateGame(GameIdPool, 1, w, "sine_wave")
    \/ \E r \in StepRoles, p \in PlayerNames :
          JoinGame(GameIdPool[1], <<"chain", "0">>, r, p)
    \/ \E w \in WeekArgs, q \in StepQuantities :
          PlaceCustomerOrder(GameIdPool[1], <<"chain", "0">>, w, q)
    \/ \E f \in StepRoles, t \in StepRoles, q \in StepQuantities :
          ProcessOrder(GameIdPool[1], <<"chain", "0">>, f, t, q)
    \/ AdvanceWeek(GameIdPool[1])
    \/ \E t \in StepWeeks :
          ProcessSupplyChainWeek(GameIdPool[1], 0, t, MaxSteps)

SpecWeekly == Init /\ [][NextWeekly]_vars

-----------------------------------------------------------------------------
(* SpecHistory: one chain with one node, set up through the public          *)
(* operations, then the weekly step called for week 1, 2, 3, ...            *)

SetUp(role, demand, shipment) ==
    LET E0 == [games |-> EmptyMap, supply_chains |-> EmptyMap,
               orders |-> EmptyMap, order_queue |-> EmptyMap]
        E1 == create_game(E0, GameIdPool[1], 1, 52, "sine_wave").E
        E2 == join_game(E1, FreshPlayerId(E1, GameIdPool[1], <<"chain", "0">>,
                                          role),
                        GameIdPool[1], <<"chain", "0">>, role, "ann").E
        E3 == IF demand = 0 THEN E2
              ELSE place_customer_order(E2, GameIdPool[1], <<"chain", "0">>,
                                        1, demand).E
    IN  IF shipment = 0 THEN E3
        ELSE process_order(E3, <<"order", "1">>, GameIdPool[1], <<"chain", "0">>, role, role,
                           shipment).E

InitHistory ==
    \E role \in RoleSet, demand \in {0} \cup HistoryDemands,
       shipment \in {0} \cup OrderQuantities :
       LET E == SetUp(role, demand, shipment)
       IN  /\ games = E.games
           /\ supply_chains = E.supply_chains
           /\ orders = E.orders
           /\ order_queue = E.order_queue
           /\ last = [op |-> "init", ret |-> None, state |-> None]

NextHistory ==
    \/ ProcessNextWeek(GameIdPool[1], 0, MaxHist)
    \/ GetGameState(GameIdPool[1])

SpecHistory == InitHistory /\ [][NextHistory]_vars

-----------------------------------------------------------------------------
(* SpecChains: a game of two chains; the public operations addressed to one *)
(* chain, and direct calls of the weekly step of one chain.                 *)

NextChains ==
    \/ \E w \in WeekLimits : CreateGame(GameIdPool, 2, w, "sine_wave")
    \/ \E s \in Selectors, r \in ChainRoles, p \in PlayerNames :
          JoinGame(GameIdPool[1], s, r, p)
    \/ \E s \in Selectors, w \in ChainWeekArgs, q \in ChainDemands :
          PlaceCustomerOrder(GameIdPool[1], s, w, q)
    \/ \E s \in Selectors, f \in ChainRoles, t \in ChainRoles,
          q \in OrderQuantities :
          ProcessOrder(GameIdPool[1], s, f, t, q)
    \/ \E i \in ChainIndexes, t \in StepWeeks :
          ProcessSupplyChainWeek(GameIdPool[1], i, t, MaxChainSteps)

SpecChains == Init /\ [][NextChains]_vars

-----------------------------------------------------------------------------
(* SpecAdvance: a game of two chains driven through join_game,              *)
(* place_customer_order and advance_week.                                   *)

NextAdvance ==
    \/ \E w \in WeekLimits : CreateGame(GameIdPool, 2, w, "sine_wave")
    \/ \E s \in Selectors, r \in ChainRoles, p \in PlayerNames :
          JoinGame(GameIdPool[1], s, r, p)
    \/ \E s \in Selectors, w \in ChainWeekArgs, q \in ChainDemands :
          PlaceCustomerOrder(GameIdPool[1], s, w, q)
    \/ \E g \in GameArgs : AdvanceWeek(g)

SpecAdvance == Init /\ [][NextAdvance]_vars

-----------------------------------------------------------------------------
(* SpecCost: a game of one chain whose Shop and Factory slots are joined,   *)
(* the weekly step called for week 1, 2, ..., and snapshots.                *)

NextCost ==
    \/ \E w \in WeekLimits : CreateGame(GameIdPool, 1, w, "sine_wave")
    \/ \E r \in CostRoles, p \in PlayerNames :
          JoinGame(GameIdPool[1], <<"chain", "0">>, r, p)
    \/ \E w \in ChainWeekArgs, q \in ChainDemands :
          PlaceCustomerOrder(GameIdPool[1], <<"chain", "0">>, w, q)
    \/ /\ \A c \in DOMAIN supply_chains :
             supply_chains[c].current_week < MaxSteps
       /\ ProcessNextWeek(GameIdPool[1], 0, MaxSteps)
    \/ \E g \in GameArgs : GetGameState(g)

SpecCost == Init /\ [][NextCost]_vars

-----------------------------------------------------------------------------
(* SpecGames: two games of one chain each, driven through the public        *)
(* operations.                                                              *)

NextGames ==
    \/ \E w \in WeekLimits : CreateGame(GamesPool, 1, w, "sine_wave")
    \/ \E g \in Range(GamesPool), r \in ChainRoles, p \in PlayerNames :
          JoinGame(g, <<"chain", "0">>, r, p)
    \/ \E g \in Range(GamesPool), w \in ChainWeekArgs, q \in ChainDemands :
          PlaceCustomerOrder(g, <<"chain", "0">>, w, q)
    \/ \E g \in Range(GamesPool), f \in ChainRoles, t \in ChainRoles,
          q \in OrderQuantities :
          ProcessOrder(g, <<"chain", "0">>, f, t, q)
    \/ \E g \in Range(GamesPool) :
          /\ g \in DOMAIN games
          /\ games[g].current_week < MaxGameWeek
          /\ AdvanceWeek(g)

SpecGames == Init /\ [][NextGames]_vars

-----------------------------------------------------------------------------
(* SpecWeeks: two games of one chain each, driven through every public      *)
(* operation, with known and unknown game ids.                              *)

WeekGameArgs == Range(GamesPool) \cup {UnknownGame}

NextWeeks ==
    \/ \E w \in WeekLimits : CreateGame(GamesPool, 1, w, "sine_wave")
    \/ \E g \in WeekGameArgs, r \in ChainRoles, p \in PlayerNames :
          JoinGame(g, <<"chain", "0">>, r, p)
    \/ \E g \in WeekGameArgs, w \in ChainWeekArgs, q \in ChainDemands :
          PlaceCustomerOrder(g, <<"chain", "0">>, w, q)
    \/ \E g \in WeekGameArgs, f \in ChainRoles, t \in ChainRoles,
          q \in OrderQuantities :
          ProcessOrder(g, <<"chain", "0">>, f, t, q)
    \/ \E g \in WeekGameArgs :
          /\ g \in DOMAIN games => games[g].current_week < MaxGameWeek
          /\ AdvanceWeek(g)
    \/ \E g \in WeekGameArgs : GetGameState(g)

SpecWeeks == Init /\ [][NextWeeks]_vars

-----------------------------------------------------------------------------
(* SpecArrivals: one chain whose Shop and Retailer are joined and whose     *)
(* Shop has a customer demand; orders are placed and the weekly step is     *)
(* called directly for increasing weeks.                                    *)

ArrivalSetUp(demand) ==
    LET E0 == [games |-> EmptyMap, supply_chains |-> EmptyMap,
               orders |-> EmptyMap, order_queue |-> EmptyMap]
        E1 == create_game(E0, GameIdPool[1], 1, 52, "sine_wave").E
        E2 == join_game(E1, FreshPlayerId(E1, GameIdPool[1], <<"chain", "0">>,
                                          "Shop"),
                        GameIdPool[1], <<"chain", "0">>, "Shop", "ann").E
        E3 == join_game(E2, FreshPlayerId(E2, GameIdPool[1], <<"chain", "0">>,
                                          "Retailer"),
                        GameIdPool[1], <<"chain", "0">>, "Retailer", "ann").E
    IN  place_customer_order(E3, GameIdPool[1], <<"chain", "0">>, 1, demand).E

InitArrivals ==
    \E demand \in ArrivalDemands :
       LET E == ArrivalSetUp(demand)
       IN  /\ games = E.games
           /\ supply_chains = E.supply_chains
           /\ orders = E.orders
           /\ order_queue = E.order_queue
           /\ last = [op |-> "init", ret |-> None, state |-> None]

(* process_order while the ledgers hold fewer than max_orders orders *)
ProcessOrderWithin(max_orders, game_id, chain_id, from_role, to_role, quantity) ==
    LET r == process_order(Engine, FreshOrderId(Engine), game_id,
                           chain_id, from_role, to_role, quantity)
    IN  /\ Cardinality(OrdersOf(r.E)) <= max_orders
        /\ Return(r, "process_order")

(* A direct call of the weekly step for a week after the chain's current    *)
(* one, as advance_week only moves forward.                                 *)
ProcessLaterWeek(game_id, chain_index, current_week) ==
    LET chain_id == ChainIdOf(game_id, IntStr(chain_index))
    IN  /\ chain_id \in DOMAIN supply_chains
        /\ current_week > supply_chains[chain_id].current_week
        /\ ProcessSupplyChainWeek(game_id, chain_index, current_week,
                                  Cardinality(ArrivalWeeks))

NextArrivals ==
    \/ \E t \in ArrivalRoles, q \in ArrivalQuantities :
          ProcessOrderWithin(MaxArrivals, GameIdPool[1], <<"chain", "0">>,
                             "Shop", t, q)
    \/ \E t \in ArrivalWeeks : ProcessLaterWeek(GameIdPool[1], 0, t)

SpecArrivals == InitArrivals /\ [][NextArrivals]_vars

-----------------------------------------------------------------------------
(* SpecOrderings: a game of two chains whose Shops and Retailers are joined *)
(* and whose Shops have a customer demand; orders are placed and the weekly *)
(* step of a chain is called directly for increasing weeks.                 *)

RECURSIVE JoinAll(_, _)
JoinAll(E, slots) ==
    IF slots = <<>> THEN E
    ELSE LET selector == Head(slots)[1]
             role == Head(slots)[2]
         IN  JoinAll(join_game(E, FreshPlayerId(E, GameIdPool[1], selector,
                                                role),
                               GameIdPool[1], selector, role, "ann").E,
                     Tail(slots))

OrderingSetUp(demand) ==
    LET E0 == [games |-> EmptyMap, supply_chains |-> EmptyMap,
               orders |-> EmptyMap, order_queue |-> EmptyMap]
        E1 == create_game(E0, GameIdPool[1], 2, 52, "sine_wave").E
        E2 == JoinAll(E1, <<<<<<"chain", "0">>, "Shop">>,
                            <<<<"chain", "0">>, "Retailer">>,
                            <<<<"chain", "1">>, "Shop">>,
                            <<<<"chain", "1">>, "Retailer">>>>)
        E3 == place_customer_order(E2, GameIdPool[1], <<"chain", "0">>, 1,
                                   demand).E
    IN  place_customer_order(E3, GameIdPool[1], <<"chain", "1">>, 1, demand).E

InitOrderings ==
    \E demand \in ArrivalDemands :
       LET E == OrderingSetUp(demand)
       IN  /\ games = E.games
           /\ supply_chains = E.supply_chains
           /\ orders = E.orders
           /\ order_queue = E.order_queue
           /\ last = [op |-> "init", ret |-> None, state |-> None]

NextOrderings ==
    \/ \E s \in Selectors, t \in ArrivalRoles, q \in OrderQuantities :
          ProcessOrderWithin(MaxPending, GameIdPool[1], s, "Shop", t, q)
    \/ \E i \in ChainIndexes, t \in OrderingWeeks :
          ProcessLaterWeek(GameIdPool[1], i, t)

SpecOrderings == InitOrderings /\ [][NextOrderings]_vars

-----------------------------------------------------------------------------
(* Vocabulary of the properties *)

(* the occupied role slots of the chains of a game *)
NodesOfGame(E, game_id) ==
    {n \in NodesOf(E) : E.supply_chains[n[1]].game_id = game_id}

(* this step is a successful advance_week of game_id *)
Advanced(game_id) ==
    /\ last'.op = "advance_week"
    /\ last'.ret = Some(BoolStr(TRUE))
    /\ game_id \in DOMAIN games
    /\ games'[game_id].current_week = games[game_id].current_week + 1

(* the orders of a ledger that are due for a role in a week *)
Due(ledger, role, week) ==
    SelectSeq(ledger, LAMBDA o : o.to_role = role /\ o.delivery_week = week)

Quantity(sq) == SumSeq([i \in 1..Len(sq) |-> sq[i].quantity])

-----------------------------------------------------------------------------
(* C1: after advance_week(g) returns true, the weekly node processing has   *)
(* been applied exactly once to every present node of every chain of g:     *)
(* orders_history and inventory_history have each gained exactly one entry  *)
(* (here: the inventory of the new week).                                   *)
C1_EveryNodeProcessedOnce ==
    [][\A g \in DOMAIN games :
         Advanced(g) =>
           \A n \in NodesOfGame(Engine, g) :
              /\ n \in NodesOf(Engine')
              /\ Len(NodeAt(Engine', n).orders_history)
                   = Len(NodeAt(Engine, n).orders_history) + 1
              /\ Len(NodeAt(Engine', n).inventory_history)
                   = Len(NodeAt(Engine, n).inventory_history) + 1
              /\ NodeAt(Engine', n).inventory_history
                   = Append(NodeAt(Engine, n).inventory_history,
                            NodeAt(Engine', n).inventory)]_vars

(* C2: an order for an occupied role that is due in week t is delivered by  *)
(* the advance_week that reaches week t (status delivered,                  *)
(* actual_delivery_week = t) and its quantity is added to the inventory of  *)
(* the role exactly once in that step.                                      *)
C2_DueOrdersDelivered ==
    [][\A g \in DOMAIN games :
         Advanced(g) =>
           \A o \in OrdersOf(Engine) :
              LET order == OrderAt(Engine, o)
                  week == games'[g].current_week
                  n == <<o[1], order.to_role>>
                  arrived == Quantity(Due(orders[o[1]], order.to_role, week))
              IN  (/\ supply_chains[o[1]].game_id = g
                   /\ order.delivery_week = week
                   /\ n \in NodesOf(Engine))
                  => /\ OrderAt(Engine', o).status = "delivered"
                     /\ OrderAt(Engine', o).actual_delivery_week = Some(week)
                     /\ NodeAt(Engine', n).inventory
                          = NodeAt(Engine, n).inventory + arrived
                            - Min(NodeAt(Engine, n).inventory + arrived,
                                  NodeAt(Engine, n).incoming_order)]_vars

(* C3: a successful process_order made when the game is at week w creates   *)
(* an order with created_week = w and delivery_week = w + ORDER_DELAY_WEEKS. *)
C3_OrderStampedWithGameWeek ==
    [][(last'.op = "process_order" /\ last'.ret # None) =>
         \A c \in DOMAIN orders :
            Len(orders'[c]) = Len(orders[c]) + 1 =>
               LET order == orders'[c][Len(orders'[c])]
                   week == games[supply_chains[c].game_id].current_week
               IN  /\ order.created_week = week
                   /\ order.delivery_week = week + ORDER_DELAY_WEEKS]_vars

(* C4: every node has inventory >= 0 and backorder >= 0, whatever integer   *)
(* quantities the calls were made with.                                     *)
C4_NonNegative ==
    \A n \in NodesOf(Engine) :
       NodeAt(Engine, n).inventory >= 0 /\ NodeAt(Engine, n).backorder >= 0

(* a node that went through the weekly step with an arrival of negative     *)
(* quantity and unmet demand, followed by an advance_week                   *)
C4_Witness ==
    /\ last.op = "advance_week"
    /\ \E n \in NodesOf(Engine) :
          /\ NodeAt(Engine, n).inventory_history # <<>>
          /\ NodeAt(Engine, n).backorder > 0
          /\ \E o \in OrdersOf(Engine) :
                /\ o[1] = n[1]
                /\ OrderAt(Engine, o).status = "delivered"
                /\ OrderAt(Engine, o).quantity < 0

(* C5: a Shop joined with inventory 100 whose incoming_order is 30, with no  *)
(* arriving shipments, goes through inventory 70, 40, 10, 0, 0, backorder   *)
(* 0, 0, 0, 20, 30 and weekly costs 35, 20, 5, 40, 60: total_cost 160 after *)
(* week 5 (costs below are in half units).                                  *)
C5_Inventory == <<70, 40, 10, 0, 0>>

C5_Backorder == <<0, 0, 0, 20, 30>>

C5_CostX2 == <<70, 110, 120, 200, 320>>

C5_Scenario ==
    \A n \in NodesOf(Engine) :
       LET node == NodeAt(Engine, n)
           k == Len(node.inventory_history)
       IN  (/\ node.role = "Shop"
            /\ node.incoming_order = 30
            /\ orders[n[1]] = <<>>
            /\ k \in 1..5)
           => /\ node.inventory_history = SubSeq(C5_Inventory, 1, k)
              /\ node.inventory = C5_Inventory[k]
              /\ node.backorder = C5_Backorder[k]
              /\ node.total_cost = C5_CostX2[k]

IsMostRecent(s, t, n) ==
    /\ Len(s) = Min(Len(t), n)
    /\ \A i \in 1..Len(s) : s[i] = t[Len(t) - Len(s) + i]

C7_BadJoinRejected ==
    [][\A g \in GameArgs, s \in Selectors, r \in RoleArgs, p \in PlayerNames :
         (/\ last'.op = "join_game"
          /\ \/ g \notin DOMAIN games
             \/ FullChainId(g, s) \notin DOMAIN supply_chains
             \/ r \notin RoleSet
          /\ JoinGame(g, s, r, p))
         => /\ last'.ret = None
            /\ UNCHANGED <<games, supply_chains, orders, order_queue>>]_vars

(* a rejected join_game in an engine that holds a game, a chain and a node  *)
C7_Witness ==
    /\ last.op = "join_game"
    /\ last.ret = None
    /\ NodesOf(Engine) # {}

(* C8: join_game on a role slot that is already bound to a node is rejected *)
(* and leaves the existing node unchanged.                                  *)
C8_OccupiedSlotRejected ==
    [][\A g \in GameArgs, s \in Selectors, r \in RoleArgs, p \in PlayerNames :
         (/\ last'.op = "join_game"
          /\ <<FullChainId(g, s), r>> \in NodesOf(Engine)
          /\ JoinGame(g, s, r, p))
         => /\ last'.ret = None
            /\ supply_chains' = supply_chains]_vars

(* C9: once current_week reaches weeks the game is finished and the week    *)
(* counter never exceeds weeks.                                             *)
C9_WeekLimitEnforced ==
    \A g \in DOMAIN games :
       /\ games[g].current_week <= games[g].weeks
       /\ games[g].current_week >= games[g].weeks
             => games[g].status = "finished"

(* C10: the total_cost of a node never decreases and is never reset.        *)
C10_CostNeverDecreases ==
    [][\A n \in NodesOf(Engine) :
         /\ n \in NodesOf(Engine')
         /\ NodeAt(Engine', n).total_cost >= NodeAt(Engine, n).total_cost]_vars

(* the engine as chain c alone sees it: the other chains removed *)
OnlyChain(E, c) ==
    [games |-> E.games,
     supply_chains |-> [d \in (DOMAIN E.supply_chains) \cap {c} |->
                           E.supply_chains[d]],
     orders |-> [d \in (DOMAIN E.orders) \cap {c} |-> E.orders[d]],
     order_queue |-> [d \in (DOMAIN E.order_queue) \cap {c} |->
                         E.order_queue[d]]]

(* this step leaves the nodes, the ledger and the total_cost that to_dict   *)
(* reports of every chain but c as they were                                *)
OtherChainsUnchanged(c) ==
    \A d \in (DOMAIN supply_chains) \ {c} :
       /\ d \in DOMAIN supply_chains'
       /\ supply_chains'[d] = supply_chains[d]
       /\ orders'[d] = orders[d]
       /\ calculate_total_cost(supply_chains'[d])
            = calculate_total_cost(supply_chains[d])

(* C11: join_game, place_customer_order and process_order addressed to one  *)
(* chain leave every other chain's nodes, ledger and reported total_cost    *)
(* unchanged (stated as: a step that changes a chain other than c is not    *)
(* one of these operations addressed to c); the weekly step of chain i      *)
(* writes only chain i's nodes and ledger, and what it writes is what it    *)
(* computes from chain i alone.                                             *)
C11_ChainsIsolated ==
    [][/\ \A s \in Selectors :
            ~OtherChainsUnchanged(FullChainId(GameIdPool[1], s))
            => /\ \A r \in ChainRoles, p \in PlayerNames :
                    ~JoinGame(GameIdPool[1], s, r, p)
               /\ \A w \in ChainWeekArgs, q \in ChainDemands :
                    ~PlaceCustomerOrder(GameIdPool[1], s, w, q)
               /\ \A f \in ChainRoles, t \in ChainRoles,
                     q \in OrderQuantities :
                    ~ProcessOrder(GameIdPool[1], s, f, t, q)
       /\ \A i \in ChainIndexes, t \in StepWeeks :
            (/\ last'.op = "_process_supply_chain_week"
             /\ ProcessSupplyChainWeek(GameIdPool[1], i, t, MaxChainSteps))
            => LET c == ChainIdOf(GameIdPool[1], IntStr(i))
                   alone == process_supply_chain_week(
                               OnlyChain(Engine, c), GameIdPool[1],
                               IntStr(i), t)
               IN  /\ OtherChainsUnchanged(c)
                   /\ c \in DOMAIN supply_chains
                        => /\ supply_chains'[c] = alone.supply_chains[c]
                           /\ orders'[c] = alone.orders[c]]_vars

(* the weekly step has run for week t on one chain while the other chain    *)
(* holds a node and a pending order that is due for the same role in week t *)
C11_Witness ==
    /\ last.op = "_process_supply_chain_week"
    /\ \E c \in DOMAIN supply_chains, d \in DOMAIN supply_chains :
          /\ c # d
          /\ supply_chains[c].current_week > supply_chains[d].current_week
          /\ \E r \in DOMAIN supply_chains[c].nodes :
                /\ supply_chains[c].nodes[r].inventory_history # <<>>
                /\ r \in DOMAIN supply_chains[d].nodes
                /\ \E k \in 1..Len(orders[d]) :
                      /\ orders[d][k].to_role = r
                      /\ orders[d][k].status = "pending"
                      /\ orders[d][k].delivery_week
                           = supply_chains[c].current_week

(* C12: after a successful process_order(from_role, to_role, q) the         *)
(* incoming_order of the recipient node equals q.                           *)
C12_RecipientSeesOrder ==
    [][(last'.op = "process_order" /\ last'.ret # None) =>
         \A c \in DOMAIN orders :
            Len(orders'[c]) = Len(orders[c]) + 1 =>
               LET order == orders'[c][Len(orders'[c])]
               IN  supply_chains'[c].nodes[order.to_role].incoming_order
                     = order.quantity]_vars

(* C13: in every state between engine operations, the current_week of each  *)
(* chain equals the current_week of the game that owns it.                  *)
C13_ChainWeekMirrorsGame ==
    \A c \in DOMAIN supply_chains :
       supply_chains[c].game_id \in DOMAIN games
       => supply_chains[c].current_week
            = games[supply_chains[c].game_id].current_week

C16_BadOrderRejected ==
    [][(/\ last'.op = "process_order"
        /\ ~(/\ last'.ret = None
             /\ UNCHANGED <<games, supply_chains, orders, order_queue>>))
       => \A g \in GameArgs, s \in Selectors, f \in RoleArgs, t \in RoleArgs,
             q \in OrderQuantities :
            (\/ FullChainId(g, s) \notin DOMAIN supply_chains
             \/ ~HasNode(supply_chains[FullChainId(g, s)], f)
             \/ ~HasNode(supply_chains[FullChainId(g, s)], t))
            => ~ProcessOrder(g, s, f, t, q)]_vars

(* a rejected process_order on an engine whose chain holds a Shop and no    *)
(* Wholesaler: every call but Shop to Shop on that chain is rejected         *)
C16_Witness ==
    /\ last.op = "process_order"
    /\ last.ret = None
    /\ \E c \in DOMAIN supply_chains :
          /\ DOMAIN supply_chains[c].nodes = {"Shop"}
          /\ orders[c] = <<>>

(* C17: place_customer_order on a chain whose Shop slot is occupied sets    *)
(* the Shop's incoming_order to the given quantity, overwriting the         *)
(* previous value, and on an unknown chain or an empty Shop slot returns    *)
(* False and changes nothing; the demand that an advance_week serves at the *)
(* Shop is the incoming_order it finds, the quantity of the last call.      *)
C17_LastCustomerOrderIsDemand ==
    [][/\ \A g \in GameArgs, s \in Selectors, w \in WeekArgs, q \in Quantities :
            (/\ last'.op = "place_customer_order"
             /\ PlaceCustomerOrder(g, s, w, q))
            => LET c == FullChainId(g, s)
               IN  IF <<c, "Shop">> \in NodesOf(Engine)
                   THEN /\ last'.ret = Some(BoolStr(TRUE))
                        /\ supply_chains' =
                             [supply_chains EXCEPT
                                ![c].nodes["Shop"].incoming_order = q]
                        /\ UNCHANGED <<games, orders, order_queue>>
                   ELSE /\ last'.ret = Some(BoolStr(FALSE))
                        /\ UNCHANGED <<games, supply_chains, orders,
                                       order_queue>>
       /\ \A g \in DOMAIN games :
            Advanced(g) =>
              \A n \in NodesOfGame(Engine, g) :
                 n[2] = "Shop" =>
                    LET shop == NodeAt(Engine, n)
                        stock == shop.inventory
                                 + Quantity(Due(orders[n[1]], "Shop",
                                                games'[g].current_week))
                    IN  NodeAt(Engine', n).inventory
                          = stock - Min(stock, shop.incoming_order)]_vars

(* C18: create_game with chain_count < 1 fails: it returns no game id and   *)
(* registers no game, no chain and no ledger.                               *)
C18_NoChainsRejected ==
    [][\A n \in ChainCounts, w \in WeekLimits :
         (/\ last'.op = "create_game"
          /\ n < 1
          /\ CreateGame(GameIdPool, n, w, "sine_wave"))
         => /\ last'.ret = None
            /\ UNCHANGED <<games, supply_chains, orders, order_queue>>]_vars

(* the sum of the total_cost of the nodes of the slots S *)
RECURSIVE CostOfSlots(_, _)
CostOfSlots(nodes, S) ==
    IF S = {} THEN 0
    ELSE LET r == CHOOSE x \in S : TRUE
         IN  nodes[r].total_cost + CostOfSlots(nodes, S \ {r})

(* C19: the total_cost that a snapshot reports for a chain is the sum of    *)
(* the total_cost of the nodes present in the chain at the moment of the    *)
(* query, 0 for a chain with no nodes.                                      *)
C19_ReportedCostIsSum ==
    (last.op = "get_game_state" /\ last.ret # None) =>
       \A i \in 1..Len(last.state[1].supply_chains) :
          LET view == last.state[1].supply_chains[i]
              nodes == supply_chains[view.chain_id].nodes
          IN  /\ view.total_cost = CostOfSlots(nodes, DOMAIN nodes)
              /\ DOMAIN nodes = {} => view.total_cost = 0

(* a snapshot of a chain whose two nodes have different costs above 0 *)
C19_Witness ==
    /\ last.op = "get_game_state"
    /\ last.ret # None
    /\ \E i \in 1..Len(last.state[1].supply_chains) :
          LET view == last.state[1].supply_chains[i]
          IN  /\ DOMAIN view.nodes = CostRoles
              /\ view.nodes["Shop"].total_cost > 0
              /\ view.nodes["Factory"].total_cost
                   > view.nodes["Shop"].total_cost
              /\ view.total_cost > view.nodes["Factory"].total_cost

(* C20: get_game_state changes no game, chain, node or order; for a known   *)
(* game it returns a snapshot of the game's week and status and of the      *)
(* present nodes of every chain of the game, for an unknown game id None.   *)
C20_SnapshotReadOnly ==
    [][\A g \in GameArgs :
         (last'.op = "get_game_state" /\ GetGameState(g))
         => /\ UNCHANGED <<games, supply_chains, orders, order_queue>>
            /\ IF g \in DOMAIN games
               THEN /\ last'.ret # None
                    /\ LET snapshot == last'.state[1]
                       IN  /\ snapshot.current_week = games[g].current_week
                           /\ snapshot.status = games[g].status
                           /\ Len(snapshot.supply_chains)
                                = Len(games[g].supply_chains)
                           /\ \A i \in 1..Len(snapshot.supply_chains) :
                                 LET view == snapshot.supply_chains[i]
                                     c == games[g].supply_chains[i]
                                 IN  /\ view.chain_id = c
                                     /\ DOMAIN view.nodes
                                          = DOMAIN supply_chains[c].nodes
                                     /\ \A r \in DOMAIN view.nodes :
                                          /\ view.nodes[r].inventory
                                               = supply_chains[c].nodes[r].inventory
                                          /\ view.nodes[r].backorder
                                               = supply_chains[c].nodes[r].backorder
                                          /\ view.nodes[r].total_cost
                                               = supply_chains[c].nodes[r].total_cost
                                          /\ view.nodes[r].player_id
                                               = supply_chains[c].nodes[r].player_id
               ELSE /\ last'.ret = None
                    /\ last'.state = None]_vars

(* a snapshot of a game whose chain holds a node that has a cost and a      *)
(* history                                                                  *)
C20_Witness ==
    /\ last.op = "get_game_state"
    /\ last.ret # None
    /\ \E i \in 1..Len(last.state[1].supply_chains) :
          \E r \in DOMAIN last.state[1].supply_chains[i].nodes :
             /\ last.state[1].supply_chains[i].nodes[r].total_cost > 0
             /\ last.state[1].supply_chains[i].nodes[r].inventory_history
                  # <<>>

(* this step leaves the week counter, the chains, the nodes and the ledgers *)
(* of every game but game_id as they were                                   *)
OtherGamesUnchanged(game_id) ==
    /\ \A g \in (DOMAIN games) \ {game_id} :
          g \in DOMAIN games' /\ games'[g] = games[g]
    /\ \A c \in DOMAIN supply_chains :
          supply_chains[c].game_id # game_id
          => /\ c \in DOMAIN supply_chains'
             /\ supply_chains'[c] = supply_chains[c]
             /\ orders'[c] = orders[c]
             /\ order_queue'[c] = order_queue[c]

(* the operations on a game, with the ids they generate, as functions of    *)
(* the engine                                                               *)
OpsOn(game_id) ==
    {[op |-> "join_game", role |-> r] : r \in ChainRoles}
    \cup {[op |-> "place_customer_order", quantity |-> q] : q \in ChainDemands}
    \cup {[op |-> "process_order", quantity |-> q] : q \in OrderQuantities}
    \cup {[op |-> "advance_week"]}
    \cup {[op |-> "_process_supply_chain_week", week |-> t] : t \in StepWeeks}

ApplyOp(E, game_id, o) ==
    CASE o.op = "join_game" ->
           join_game(E, FreshPlayerId(E, game_id, <<"chain", "0">>, o.role),
                     game_id, <<"chain", "0">>, o.role, "ann").E
      [] o.op = "place_customer_order" ->
           place_customer_order(E, game_id, <<"chain", "0">>, 1, o.quantity).E
      [] o.op = "process_order" ->
           process_order(E, <<"order", game_id>>, game_id, <<"chain", "0">>,
                         "Shop", "Shop", o.quantity).E
      [] o.op = "advance_week" -> advance_week(E, game_id).E
      [] o.op = "_process_supply_chain_week" ->
           process_supply_chain_week(E, game_id, IntStr(0), o.week)

(* an operation on game A leaves game B's week counter, chains, nodes and   *)
(* ledgers unchanged (stated as: a step that changes another game than A is *)
(* not an operation on A)                                                   *)
GamesIsolated ==
    [][\A a \in Range(GamesPool) :
         ~OtherGamesUnchanged(a)
         => /\ \A r \in ChainRoles, p \in PlayerNames :
                 ~JoinGame(a, <<"chain", "0">>, r, p)
            /\ \A w \in ChainWeekArgs, q \in ChainDemands :
                 ~PlaceCustomerOrder(a, <<"chain", "0">>, w, q)
            /\ \A f \in ChainRoles, t \in ChainRoles, q \in OrderQuantities :
                 ~ProcessOrder(a, <<"chain", "0">>, f, t, q)
            /\ ~AdvanceWeek(a)
            /\ \A w \in WeekLimits :
                 ~(/\ Fresh(GamesPool, DOMAIN games) = Some(a)
                   /\ CreateGame(GamesPool, 1, w, "sine_wave"))]_vars

(* an operation on game A and an operation on game B commute, so every     *)
(* interleaving of a sequence on A with a sequence on B ends in the state   *)
(* of running one sequence after the other                                  *)
GamesCommute ==
    \A a \in DOMAIN games, b \in DOMAIN games :
       a # b =>
         \A oa \in OpsOn(a), ob \in OpsOn(b) :
            ApplyOp(ApplyOp(Engine, a, oa), b, ob)
              = ApplyOp(ApplyOp(Engine, b, ob), a, oa)

(* C21: operations on different games are independent: an operation on     *)
(* game A leaves game B's week counter, chains, nodes and ledgers           *)
(* unchanged, and operations on A commute with operations on B.             *)
C21_GamesIndependent == GamesIsolated /\ []GamesCommute

(* two games that both hold a node, one of them advanced and with an order, *)
(* the other not                                                            *)
C21_Witness ==
    /\ last.op = "advance_week"
    /\ \E a \in DOMAIN games, b \in DOMAIN games :
          /\ games[a].current_week > games[b].current_week
          /\ \E n \in NodesOfGame(Engine, a) : orders[n[1]] # <<>>
          /\ NodesOfGame(Engine, b) # {}

(* the quantity that the weekly step of week t serves at node n: the        *)
(* minimum of the stock after the arrivals of week t and the demand         *)
Fulfilled(E, n, t) ==
    Min(NodeAt(E, n).inventory + Quantity(Due(E.orders[n[1]], n[2], t)),
        NodeAt(E, n).incoming_order)

(* C22: the weekly step of a node with demand d = incoming_order sets its   *)
(* backorder to max(0, d - fulfilled), replacing the previous backorder.    *)
C22_BackorderReplaced ==
    [][last'.op = "_process_supply_chain_week" =>
         \A n \in NodesOf(Engine) :
            NodeAt(Engine', n).backorder
              = Max(0, NodeAt(Engine, n).incoming_order
                       - Fulfilled(Engine, n,
                                   supply_chains'[n[1]].current_week))]_vars

(* C23: the weekly step adds max(0, inventory) * holding_rate               *)
(* + max(0, backorder) * stockout_rate to the total_cost of a node, for the *)
(* inventory and backorder it leaves (costs in half units).                 *)
C23_WeeklyCost ==
    [][last'.op = "_process_supply_chain_week" =>
         \A n \in NodesOf(Engine) :
            NodeAt(Engine', n).total_cost - NodeAt(Engine, n).total_cost
              = Max(0, NodeAt(Engine', n).inventory) * HOLDING_COST_X2
                + Max(0, NodeAt(Engine', n).backorder) * STOCKOUT_COST_X2]_vars

(* C24: the weekly step of week t marks every order that is due in week t   *)
(* for a role delivered, whatever its position in the ledger, and adds the  *)
(* sum of the quantities due for a role to the inventory of its node before *)
(* the demand is served; the orders for another week are left untouched.    *)
C24_AllDueOrdersArrive ==
    [][last'.op = "_process_supply_chain_week" =>
         \A c \in DOMAIN orders :
            LET t == supply_chains'[c].current_week
            IN  /\ Len(orders'[c]) = Len(orders[c])
                /\ \A k \in 1..Len(orders[c]) :
                      orders'[c][k] =
                        IF /\ orders[c][k].delivery_week = t
                           /\ HasNode(supply_chains[c], orders[c][k].to_role)
                        THEN [orders[c][k] EXCEPT
                                !.status = "delivered",
                                !.actual_delivery_week = Some(t)]
                        ELSE orders[c][k]
                /\ \A r \in DOMAIN supply_chains[c].nodes :
                      supply_chains'[c].nodes[r].inventory
                        = supply_chains[c].nodes[r].inventory
                          + Quantity(Due(orders[c], r, t))
                          - Fulfilled(Engine, <<c, r>>, t)]_vars

(* the step of week 4 has delivered two orders of different quantities to   *)
(* the Shop and has left a later order for the Shop pending                 *)
C24_Witness ==
    /\ last.op = "_process_supply_chain_week"
    /\ \E c \in DOMAIN orders :
          \E i \in 1..Len(orders[c]), j \in 1..Len(orders[c]),
             k \in 1..Len(orders[c]) :
             /\ i < j
             /\ j < k
             /\ \A x \in {i, j, k} : orders[c][x].to_role = "Shop"
             /\ orders[c][i].status = "delivered"
             /\ orders[c][j].status = "delivered"
             /\ orders[c][i].quantity # orders[c][j].quantity
             /\ orders[c][k].status = "pending"
             /\ orders[c][k].delivery_week > supply_chains[c].current_week
             /\ Len(supply_chains[c].nodes["Shop"].inventory_history) = 2

(* C25 as claimed: in the weekly step of a node with demand d >= 0, the     *)
(* quantity served is fulfilled = min(inventory after arrivals, d) with     *)
(* 0 <= fulfilled <= d, and the inventory after the step is the inventory   *)
(* before it plus the arrivals of the week minus fulfilled.                 *)
C25_FulfilledWithinDemand ==
    [][last'.op = "_process_supply_chain_week" =>
         \A n \in NodesOf(Engine) :
            LET t == supply_chains'[n[1]].current_week
                d == NodeAt(Engine, n).incoming_order
                fulfilled == Fulfilled(Engine, n, t)
            IN  d >= 0 =>
                  /\ 0 <= fulfilled
                  /\ fulfilled <= d
                  /\ NodeAt(Engine', n).inventory
                       = NodeAt(Engine, n).inventory
                         + Quantity(Due(orders[n[1]], n[2], t)) - fulfilled
                  /\ NodeAt(Engine, n).inventory - NodeAt(Engine', n).inventory
                       <= d]_vars

(* C25 as amended: in the weekly step of a node with demand d >= 0 the      *)
(* inventory after the step is the inventory before it plus the arrivals of *)
(* the week minus fulfilled = min(inventory after arrivals, d); fulfilled   *)
(* is at most d, is at least 0 when the inventory after arrivals is, and is *)
(* the negative inventory after arrivals otherwise; when the arrivals are   *)
(* not negative the inventory is not reduced by more than the demand.       *)
C25_FulfilledIsMin ==
    [][last'.op = "_process_supply_chain_week" =>
         \A n \in NodesOf(Engine) :
            LET t == supply_chains'[n[1]].current_week
                d == NodeAt(Engine, n).incoming_order
                stock == NodeAt(Engine, n).inventory
                         + Quantity(Due(orders[n[1]], n[2], t))
                served == stock - NodeAt(Engine', n).inventory
            IN  d >= 0 =>
                  /\ served <= d
                  /\ stock >= d => served = d
                  /\ (0 <= stock /\ stock < d) => served = stock
                  /\ stock < 0 => served = stock
                  /\ stock >= NodeAt(Engine, n).inventory
                       => NodeAt(Engine, n).inventory
                            - NodeAt(Engine', n).inventory <= d]_vars

(* the step of a node without demand whose arrivals of the week, an order   *)
(* of negative quantity, exceed its stock                                   *)
C25_Witness ==
    /\ last.op = "_process_supply_chain_week"
    /\ \E n \in NodesOf(Engine) :
          /\ NodeAt(Engine, n).incoming_order = 0
          /\ NodeAt(Engine, n).inventory = 0
          /\ Len(NodeAt(Engine, n).inventory_history) = 1
          /\ \E o \in OrdersOf(Engine) :
                /\ o[1] = n[1]
                /\ OrderAt(Engine, o).to_role = n[2]
                /\ OrderAt(Engine, o).status = "delivered"
                /\ OrderAt(Engine, o).quantity < 0 - INITIAL_INVENTORY

(* the orderings of the elements of a sequence *)
Orderings(sq) ==
    {p \in [1..Len(sq) -> Range(sq)] :
        \A i \in 1..Len(sq), j \in 1..Len(sq) : p[i] = p[j] => i = j}

(* the weekly step of week t applied to the chains of a list of indexes *)
RECURSIVE StepChains(_, _, _, _)
StepChains(E, game_id, indexes, t) ==
    IF indexes = <<>> THEN E
    ELSE StepChains(process_supply_chain_week(E, game_id, IntStr(Head(indexes)),
                                              t),
                    game_id, Tail(indexes), t)

(* C26: the state after the weekly processing does not depend on the order *)
(* in which the chains, or the roles within a chain, are processed: every   *)
(* permutation of the roles of a chain, every permutation of the chains,    *)
(* and advance_week on every permutation of the game's chain list yield the *)
(* same nodes and the same ledgers.                                         *)
C26_ProcessingOrderIrrelevant ==
    \A t \in OrderingWeeks :
       /\ \A c \in DOMAIN supply_chains :
             \A p \in Orderings(get_nodes(supply_chains[c])) :
                ProcessNodes(Engine, c, p, t)
                  = ProcessNodes(Engine, c, get_nodes(supply_chains[c]), t)
       /\ \A g \in DOMAIN games :
             /\ \A p \in Orderings(<<0, 1>>) :
                   StepChains(Engine, g, p, t)
                     = StepChains(Engine, g, <<0, 1>>, t)
             /\ \A p \in Orderings(games[g].supply_chains) :
                   LET permuted == [Engine EXCEPT
                                      !.games[g].supply_chains = p]
                   IN  /\ advance_week(permuted, g).E.supply_chains
                            = advance_week(Engine, g).E.supply_chains
                       /\ advance_week(permuted, g).E.orders
                            = advance_week(Engine, g).E.orders

(* a weekly step has delivered an order to each of the two roles of a chain *)
(* in the same week, while the other chain holds both roles too             *)
C26_Witness ==
    /\ last.op = "_process_supply_chain_week"
    /\ \E c \in DOMAIN orders, d \in DOMAIN orders :
          /\ c # d
          /\ DOMAIN supply_chains[d].nodes = ArrivalRoles
          /\ \E i \in 1..Len(orders[c]), j \in 1..Len(orders[c]) :
                /\ orders[c][i].to_role = "Shop"
                /\ orders[c][j].to_role = "Retailer"
                /\ orders[c][i].status = "delivered"
                /\ orders[c][j].status = "delivered"
                /\ orders[c][i].actual_delivery_week
                     = orders[c][j].actual_delivery_week

(* every order is pending, with no delivery stamp, or delivered in its      *)
(* delivery_week                                                            *)
OrdersWellFormed ==
    \A o \in OrdersOf(Engine) :
       \/ /\ OrderAt(Engine, o).status = "pending"
          /\ OrderAt(Engine, o).actual_delivery_week = None
       \/ /\ OrderAt(Engine, o).status = "delivered"
          /\ OrderAt(Engine, o).actual_delivery_week
               = Some(OrderAt(Engine, o).delivery_week)

(* a step keeps every order of every ledger in its place, either as it was  *)
(* or turned from pending to delivered                                      *)
LedgersOnlyGrow ==
    \A c \in DOMAIN orders :
       /\ c \in DOMAIN orders'
       /\ Len(orders'[c]) >= Len(orders[c])
       /\ \A k \in 1..Len(orders[c]) :
             \/ orders'[c][k] = orders[c][k]
             \/ /\ orders[c][k].status = "pending"
                /\ orders'[c][k] =
                     [orders[c][k] EXCEPT
                        !.status = "delivered",
                        !.actual_delivery_week =
                            Some(orders[c][k].delivery_week)]

(* C27: each ledger is append-only and every order in it is pending or      *)
(* delivered: no step removes or reorders an order or changes its quantity, *)
(* roles or delivery_week; the status changes at most once, from pending to *)
(* delivered, and a delivered order keeps actual_delivery_week =            *)
(* delivery_week.                                                           *)
C27_LedgerAppendOnly == []OrdersWellFormed /\ [][LedgersOnlyGrow]_vars

(* a ledger with two orders delivered by the steps of two different weeks   *)
C27_Witness ==
    /\ last.op = "_process_supply_chain_week"
    /\ \E c \in DOMAIN orders :
          \E i \in 1..Len(orders[c]), j \in 1..Len(orders[c]) :
             /\ i < j
             /\ orders[c][i].status = "delivered"
             /\ orders[c][j].status = "delivered"
             /\ orders[c][i].delivery_week < orders[c][j].delivery_week

(* SpecLive: the public operations of Spec, with advance_week called again  *)
(* and again on the game for as long as the model lets the week grow.       *)
SpecLive == Spec /\ WF_vars(AdvanceWeek(GameIdPool[1]))

(* the order at position k of a chain of the game is pending and is due in  *)
(* a week the game can reach                                                *)
PendingAt(s, k) ==
    LET c == FullChainId(GameIdPool[1], s)
    IN  /\ c \in DOMAIN orders
        /\ k <= Len(orders[c])
        /\ orders[c][k].status = "pending"
        /\ orders[c][k].delivery_week <= MaxWeek

DeliveredAt(s, k) ==
    LET c == FullChainId(GameIdPool[1], s)
    IN  /\ c \in DOMAIN orders
        /\ k <= Len(orders[c])
        /\ orders[c][k].status = "delivered"

(* a successful process_order creates an order that is due after the week   *)
(* of the game                                                              *)
CreatedBeforeDue ==
    (last'.op = "process_order" /\ last'.ret # None) =>
       \A c \in DOMAIN orders :
          Len(orders'[c]) = Len(orders[c]) + 1 =>
             orders'[c][Len(orders'[c])].delivery_week
               > games[supply_chains[c].game_id].current_week

(* C28: every order created by a successful process_order is eventually     *)
(* delivered if advance_week keeps being called, and no order is created    *)
(* with a delivery_week that the game's week has already reached: no order  *)
(* stays pending forever.                                                   *)
C28_EveryOrderDelivered ==
    /\ [][CreatedBeforeDue]_vars
    /\ \A s \in Selectors, k \in 1..MaxOrders :
          PendingAt(s, k) ~> DeliveredAt(s, k)

(* the first half of C28 alone *)
C28_NoOrderBornDue == [][CreatedBeforeDue]_vars

(* the second half of C28 alone *)
C28_PendingLeadsToDelivered ==
    \A s \in Selectors, k \in 1..MaxOrders :
       PendingAt(s, k) ~> DeliveredAt(s, k)

(* this step leaves the week counter of every game as it was *)
WeeksUnchanged ==
    \A g \in DOMAIN games :
       g \in DOMAIN games'
       /\ games'[g].current_week = games[g].current_week

(* C29: the week counter of a game starts at 0, is changed only by          *)
(* advance_week, and each successful advance_week raises it by exactly 1;   *)
(* create_game of another game, join_game, place_customer_order,            *)
(* process_order and get_game_state leave it unchanged, and advance_week on *)
(* an unknown game id returns false and changes no state.                   *)
C29_WeekCounter ==
    [][/\ \A g \in DOMAIN games' :
             g \notin DOMAIN games => games'[g].current_week = 0
       /\ \A g \in DOMAIN games : g \in DOMAIN games'
       /\ ~WeeksUnchanged => last'.op = "advance_week"
       /\ last'.op = "advance_week" =>
            \A g \in WeekGameArgs :
               AdvanceWeek(g) =>
                  IF g \in DOMAIN games
                  THEN /\ last'.ret = Some(BoolStr(TRUE))
                       /\ games'[g].current_week
                            = games[g].current_week + 1
                       /\ \A h \in (DOMAIN games) \ {g} :
                             games'[h].current_week = games[h].current_week
                  ELSE /\ last'.ret = Some(BoolStr(FALSE))
                       /\ UNCHANGED <<games, supply_chains, orders,
                                      order_queue>>]_vars

(* advance_week on an unknown id has returned false in an engine of two     *)
(* games, one advanced and holding an order, the other at week 0            *)
C29_Witness ==
    /\ last.op = "advance_week"
    /\ last.ret = Some(BoolStr(FALSE))
    /\ \E a \in DOMAIN games, b \in DOMAIN games :
          /\ games[a].current_week = 1
          /\ games[b].current_week = 0
          /\ \E n \in NodesOfGame(Engine, a) : orders[n[1]] # <<>>

(* this step leaves the incoming_order and the current_order of every node  *)
(* as they were                                                             *)
OrdersOfNodesKept ==
    \A n \in NodesOf(Engine) :
       /\ n \in NodesOf(Engine')
       /\ NodeAt(Engine', n).incoming_order = NodeAt(Engine, n).incoming_order
       /\ NodeAt(Engine', n).current_order = NodeAt(Engine, n).current_order

(* this step serves, at every node of the chains of game g, the             *)
(* incoming_order the node holds, in week t                                 *)
DemandApplied(g, t) ==
    \A n \in NodesOfGame(Engine, g) :
       /\ n \in NodesOf(Engine')
       /\ NodeAt(Engine', n).inventory
            = NodeAt(Engine, n).inventory
              + Quantity(Due(orders[n[1]], n[2], t))
              - Fulfilled(Engine, n, t)

(* the weekly step, called directly, keeps incoming_order and current_order *)
C30_StepKeepsOrders ==
    [][last'.op = "_process_supply_chain_week" => OrdersOfNodesKept]_vars

(* place_customer_order does the same whatever its week argument is         *)
C30_WeekArgIgnored ==
    \A g \in GameArgs, s \in Selectors, q \in Quantities \cup StepQuantities :
       \A w1 \in WeekArgs, w2 \in WeekArgs :
          place_customer_order(Engine, g, s, w1, q)
            = place_customer_order(Engine, g, s, w2, q)

(* the weekly step, called directly, serves the demand it finds             *)
C30_StepAppliesDemand ==
    [][last'.op = "_process_supply_chain_week" =>
         \A g \in DOMAIN games :
            \A c \in DOMAIN supply_chains :
               (supply_chains[c].game_id = g
                /\ supply_chains'[c].current_week
                     # supply_chains[c].current_week)
               => DemandApplied(g, supply_chains'[c].current_week)]_vars

(* C30: the weekly step leaves a node's incoming_order and current_order    *)
(* unchanged and place_customer_order ignores its week argument, so a       *)
(* demand set once is applied again at every later advance_week until it is *)
(* overwritten.                                                             *)
C30_DemandPersists ==
    /\ []C30_WeekArgIgnored
    /\ [][\A g \in DOMAIN games :
            Advanced(g) =>
               /\ OrdersOfNodesKept
               /\ DemandApplied(g, games'[g].current_week)]_vars

====
